---- MODULE Spec2Model ----
(***************************************************************************)
(* A model of the WhatsApp bridge (src/server.js): the connection          *)
(* lifecycle around the protocol library's session handle, the LID -> phone*)
(* identity table with its debounced persistence, the bounded message      *)
(* store, the inbound-message path to the webhook and the HTTP surface.    *)
(*                                                                         *)
(* The process is single threaded: every action below is one run of a      *)
(* handler from the point where it is entered (or resumed after an await)  *)
(* to the point where it returns (or reaches its next await).              *)
(*                                                                         *)
(* Strings are sequences of one-character strings, so that split,          *)
(* endsWith, replace and template concatenation are computed as the code   *)
(* computes them.                                                          *)
(***************************************************************************)
EXTENDS Integers, Sequences, FiniteSets, TLC

VARIABLES
  messageStore,      \* Map of server.js:110, in insertion order: Seq of [id, message]
  lidToPhone,        \* object of server.js:38: function from LID strings to phones
  lidSaveTimer,      \* the timeouts of saveLidMap (server.js:70) that are pending
  sessionDir,        \* SESSION_DIR on disk: lid_map.json, mirror files, credentials
  sock,              \* server.js:139: 0 (null) or the number of the latest socket
  qrDataUrl,         \* server.js:140
  connectionStatus,  \* server.js:141
  connectedPhone,    \* server.js:142
  lastError,         \* server.js:143
  sockets,           \* sockets made so far by makeWASocket: Seq of [live, contacts]
  reconnectTimers,   \* pending setTimeout(startBaileys, 3000) of server.js:225
  starting,          \* running startBaileys invocations: Seq of [pc, origin]
  renders,           \* connection.update handlers suspended at server.js:202
  sends,             \* POST /send handlers suspended at server.js:386 / 419
  resolves,          \* POST /resolve-numbers handlers suspended at server.js:549
  WEBHOOK_URL,       \* server.js:94, fixed at process start
  running,           \* FALSE once the process has exited
  obs,               \* what the last handler run was given and what it answered
  synced,            \* history: per LID, the phone a contact event reported for
                     \* it while the table had no mapping for it
  signedOut,         \* history: a sign-out close has been handled
  API_KEY,           \* server.js:95, fixed at process start
  closing            \* server.js:643-654: a shutdown signal was handled: server.close
                     \* was called, its callback (process.exit) is outstanding

vars == <<messageStore, lidToPhone, lidSaveTimer, sessionDir, sock, qrDataUrl,
          connectionStatus, connectedPhone, lastError, sockets, reconnectTimers,
          starting, renders, sends, resolves, WEBHOOK_URL, running, obs,
          synced, signedOut, API_KEY, closing>>

(***************************************************************************)
(* Strings                                                                 *)
(***************************************************************************)

\* JS undefined / null / an absent property, comparable with every string
Undefined == <<"<undefined>">>

\* what a template literal prints for undefined
UndefinedStr == <<"u","n","d","e","f","i","n","e","d">>

AtLid == <<"@","l","i","d">>
AtUser == <<"@","s",".","w","h","a","t","s","a","p","p",".","n","e","t">>

\* JS truthiness of a string-or-undefined value
Truthy(s) == s # Undefined /\ s # <<>>

\* a || b
Or(a, b) == IF Truthy(a) THEN a ELSE b

\* `${x}`
Template(x) == IF x = Undefined THEN UndefinedStr ELSE x

\* s.endsWith(suf)
EndsWith(s, suf) ==
  /\ Len(s) >= Len(suf)
  /\ SubSeq(s, Len(s) - Len(suf) + 1, Len(s)) = suf

\* s.split(ch)[0]: the part of s before the first ch, all of s when there is none
SplitHead(s, ch) ==
  LET hits == {i \in 1..Len(s) : s[i] = ch}
  IN IF hits = {} THEN s
     ELSE SubSeq(s, 1, (CHOOSE i \in hits : \A j \in hits : i <= j) - 1)

\* s.replace(ch, ""): the first ch removed
ReplaceFirst(s, ch) ==
  LET hits == {i \in 1..Len(s) : s[i] = ch}
  IN IF hits = {} THEN s
     ELSE LET k == CHOOSE i \in hits : \A j \in hits : i <= j
          IN SubSeq(s, 1, k - 1) \o SubSeq(s, k + 1, Len(s))

\* s.replace(/\s|-/g, ""): every white space and dash removed
RECURSIVE RemoveAll(_, _)
RemoveAll(s, chars) ==
  IF s = <<>> THEN <<>>
  ELSE IF Head(s) \in chars THEN RemoveAll(Tail(s), chars)
  ELSE <<Head(s)>> \o RemoveAll(Tail(s), chars)

\* server.js:183, 293: phoneNumber.replace("+", "").replace(/\s|-/g, "")
normalizePhone(p) == RemoveAll(ReplaceFirst(p, "+"), {" ", "-"})

\* obj[k] of a JS object held as a function
Get(m, k) == IF k \in DOMAIN m THEN m[k] ELSE Undefined

\* obj[k] = v
Put(m, k, v) == [x \in DOMAIN m \cup {k} |-> IF x = k THEN v ELSE m[x]]

EmptyObject == [x \in {} |-> Undefined]

(***************************************************************************)
(* Message store (server.js:110-125)                                       *)
(***************************************************************************)

\* scaled down from the 5000 of server.js:111
MAX_STORE_SIZE == 2

\* a mutant: the store is keyed by the chat alone
storeIdChatOnly(key) == Template(key.remoteJid)

\* server.js:114, 123: `${key.remoteJid}:${key.id}`
storeId(key) == Template(key.remoteJid) \o <<":">> \o Template(key.id)

StoreKeys(store) == {store[i].id : i \in 1..Len(store)}

StoreIndex(store, id) == CHOOSE i \in 1..Len(store) : store[i].id = id

\* a mutant: set() moves an existing key to the end (an LRU-style refresh)
MapSetRefresh(store, id, message) ==
  Append(SelectSeq(store, LAMBDA e : e.id # id), [id |-> id, message |-> message])

\* Map.prototype.set: an existing key keeps its place, a new key goes last
MapSet(store, id, message) ==
  IF id \in StoreKeys(store)
  THEN [store EXCEPT ![StoreIndex(store, id)].message = message]
  ELSE Append(store, [id |-> id, message |-> message])

\* server.js:113-120
storeMessage(store, key, message) ==
  LET set == MapSet(store, storeId(key), message)
  IN IF Len(set) > MAX_STORE_SIZE THEN Tail(set) ELSE set

\* a message content object: msg.message / result.message.  present = FALSE is
\* null or undefined; conversation and text are message.conversation and
\* message.extendedTextMessage?.text
NoMessage == [present |-> FALSE, conversation |-> Undefined, text |-> Undefined]

Content(conversation, text) ==
  [present |-> TRUE, conversation |-> conversation, text |-> text]

\* server.js:122-125: messageStore.get(id) || undefined
getMessage(store, key) ==
  LET id == storeId(key)
  IN IF id \in StoreKeys(store) THEN store[StoreIndex(store, id)].message
     ELSE NoMessage

(***************************************************************************)
(* Identity table and its persistence (server.js:37-84)                    *)
(***************************************************************************)

\* SESSION_DIR: lid_map.json (LID_MAP_PATH), the lid-mapping-<lid>_reverse.json
\* files, the phones that have a lid-mapping-<phone>.json file, and whether
\* the library's credential files are there
EmptyDir ==
  [lidMapExists |-> FALSE, lidMap |-> EmptyObject, reverse |-> EmptyObject,
   forward |-> {}, creds |-> FALSE]

\* server.js:39-65, from the table as it stands (empty at process start)
loadLidMap(table, dir) ==
  LET base == IF dir.lidMapExists THEN dir.lidMap ELSE table
      fill == {l \in DOMAIN dir.reverse :
                 Truthy(l) /\ Truthy(dir.reverse[l]) /\ ~Truthy(Get(base, l))}
  IN [l \in DOMAIN base \cup fill |->
        IF l \in fill THEN dir.reverse[l] ELSE base[l]]

\* server.js:70-83, the timeout's callback: what it leaves on disk
flushLidMap(table, dir) ==
  [dir EXCEPT
     !.lidMapExists = TRUE,
     !.lidMap = table,
     !.reverse = [l \in DOMAIN dir.reverse \cup DOMAIN table |->
                    IF l \in DOMAIN table THEN table[l] ELSE dir.reverse[l]],
     !.forward = dir.forward \cup {table[l] : l \in DOMAIN table}]

\* a mutant: the pending timeout is not cleared
saveLidMapNoClear(pending, called) == IF called THEN pending + 1 ELSE pending

\* server.js:68-70, the timeouts pending after a handler run that called
\* saveLidMap (once or more) or did not: clearTimeout of the pending one,
\* then setTimeout
saveLidMap(pending, called) == IF called THEN 1 ELSE pending

\* server.js:184-187 and 555-558: the write both absorbContacts and
\* POST /resolve-numbers make when lidToPhone[lid] !== phone
absorbOne(table, lid, phone) ==
  IF Get(table, lid) # phone THEN Put(table, lid, phone) ELSE table

\* server.js:178-189, the loop from [table, changed].  A contact is
\* [id, phoneNumber].
RECURSIVE absorbLoop(_, _)
absorbLoop(acc, contacts) ==
  IF contacts = <<>> THEN acc
  ELSE LET c == Head(contacts)
           lid == SplitHead(c.id, "@")
           phone == normalizePhone(c.phoneNumber)
       IN IF Truthy(c.id) /\ EndsWith(c.id, AtLid) /\ Truthy(c.phoneNumber)
          THEN absorbLoop([table |-> absorbOne(acc.table, lid, phone),
                           changed |-> acc.changed \/ Get(acc.table, lid) # phone],
                          Tail(contacts))
          ELSE absorbLoop(acc, Tail(contacts))

(***************************************************************************)
(* Inbound messages (server.js:248-334)                                    *)
(*                                                                         *)
(* A message is [key |-> [remoteJid, id, fromMe, participant], message,    *)
(* pushName]; the handler's accumulator is [table, saved, out]: the        *)
(* identity table, whether saveLidMap was called, and one record per       *)
(* message of the batch saying what became of it: the table before and     *)
(* after its turn of the loop, whether it got past the two `continue`s,    *)
(* and the payload handed to sendWebhook when WEBHOOK_URL is set.          *)
(***************************************************************************)

\* server.js:252-256
\* a mutant: only what the other side sent is stored
RECURSIVE storeAllReceived(_, _)
storeAllReceived(store, messages) ==
  IF messages = <<>> THEN store
  ELSE storeAllReceived(IF Head(messages).message.present
                            /\ ~Head(messages).key.fromMe
                         THEN storeMessage(store, Head(messages).key,
                                           Head(messages).message)
                         ELSE store,
                         Tail(messages))

RECURSIVE storeAll(_, _)
storeAll(store, messages) ==
  IF messages = <<>> THEN store
  ELSE storeAll(IF Head(messages).message.present
                THEN storeMessage(store, Head(messages).key, Head(messages).message)
                ELSE store,
                Tail(messages))

\* a mutant: the pre-LID test, which compares the chat with the phone only
isSelfChatPhoneOnly(msg, table, phone) ==
  Or(SplitHead(Or(msg.key.remoteJid, <<>>), "@"), <<>>) = phone

\* server.js:260-266
isSelfChat(msg, table, phone) ==
  LET remoteJid == Or(msg.key.remoteJid, <<>>)
      remoteId == Or(SplitHead(remoteJid, "@"), <<>>)
      isLidJid == EndsWith(remoteJid, AtLid)
  IN \/ remoteId = phone
     \/ isLidJid /\ Get(table, remoteId) = phone

\* a mutant: the extended-text variant is taken before the plain one
messageTextExtendedFirst(msg) ==
  Or(msg.message.text, Or(msg.message.conversation, <<>>))

\* server.js:272-275
messageText(msg) == Or(msg.message.conversation, Or(msg.message.text, <<>>))

\* a mutant: a miss is remembered as a mapping of the LID to itself
resolveRememberMiss(msg, table, contacts, dir) ==
  LET from == Or(msg.key.remoteJid, <<>>)
      rawId == SplitHead(from, "@")
  IN IF ~EndsWith(from, AtLid)
     THEN [phone |-> rawId, table |-> table, saved |-> FALSE, via |-> "direct"]
     ELSE IF Truthy(Get(table, rawId))
     THEN [phone |-> Get(table, rawId), table |-> table, saved |-> FALSE,
           via |-> "table"]
     ELSE [phone |-> rawId, table |-> Put(table, rawId, rawId), saved |-> FALSE,
           via |-> "raw"]

\* a mutant: the library's contact directory is asked before the table
resolveDirectoryFirst(msg, table, contacts, dir) ==
  LET from == Or(msg.key.remoteJid, <<>>)
      rawId == SplitHead(from, "@")
      isLid == EndsWith(from, AtLid)
      contactPhone == Get(contacts, from)
      mapped == Get(dir.reverse, rawId)
  IN IF ~isLid
     THEN [phone |-> rawId, table |-> table, saved |-> FALSE, via |-> "direct"]
     ELSE IF Truthy(contactPhone)
     THEN [phone |-> normalizePhone(contactPhone),
           table |-> Put(table, rawId, normalizePhone(contactPhone)),
           saved |-> TRUE, via |-> "contacts"]
     ELSE IF Truthy(Get(table, rawId))
     THEN [phone |-> Get(table, rawId), table |-> table, saved |-> FALSE,
           via |-> "table"]
     ELSE IF Truthy(mapped)
     THEN [phone |-> mapped, table |-> Put(table, rawId, mapped),
           saved |-> FALSE, via |-> "file"]
     ELSE [phone |-> rawId, table |-> table, saved |-> FALSE, via |-> "raw"]

\* server.js:279-312: the phone reported for the chat, the table afterwards,
\* whether saveLidMap was called, and where the phone came from
resolveSender(msg, table, contacts, dir) ==
  LET from == Or(msg.key.remoteJid, <<>>)
      rawId == SplitHead(from, "@")
      isLid == EndsWith(from, AtLid)
      contactPhone == Get(contacts, from)
      mapped == Get(dir.reverse, rawId)
  IN IF ~isLid
     THEN [phone |-> rawId, table |-> table, saved |-> FALSE, via |-> "direct"]
     ELSE IF Truthy(Get(table, rawId))
     THEN [phone |-> Get(table, rawId), table |-> table, saved |-> FALSE,
           via |-> "table"]
     ELSE IF Truthy(contactPhone)
     THEN [phone |-> normalizePhone(contactPhone),
           table |-> Put(table, rawId, normalizePhone(contactPhone)),
           saved |-> TRUE, via |-> "contacts"]
     ELSE IF Truthy(mapped)
     THEN [phone |-> mapped, table |-> Put(table, rawId, mapped),
           saved |-> FALSE, via |-> "file"]
     ELSE [phone |-> rawId, table |-> table, saved |-> FALSE, via |-> "raw"]

\* server.js:323-331, the object handed to sendWebhook
webhookPayload(msg, phone) ==
  LET from == Or(msg.key.remoteJid, <<>>)
  IN [from |-> phone,
      from_lid |-> IF EndsWith(from, AtLid) THEN SplitHead(from, "@") ELSE <<>>,
      from_jid |-> Or(msg.key.participant, from),
      chat_id |-> from,
      from_name |-> Or(msg.pushName, <<>>),
      message |-> messageText(msg),
      message_id |-> Or(msg.key.id, <<>>)]

NoPayload ==
  [from |-> Undefined, from_lid |-> Undefined, from_jid |-> Undefined,
   chat_id |-> Undefined, from_name |-> Undefined, message |-> Undefined,
   message_id |-> Undefined]

\* server.js:341-373, sendWebhook: the X-Webhook-Secret header of the POST
\* it writes with the payload as body, Undefined when the POST has none
sendWebhook(apiKey) == IF Truthy(apiKey) THEN apiKey ELSE Undefined

\* server.js:258-333, one turn of the loop; store is the message store as the
\* loop of server.js:252-256 left it
surfaceOne(acc, msg, phone, contacts, dir, url, apiKey, store) ==
  LET skipped == [msg |-> msg, tableAt |-> acc.table, tableAfter |-> acc.table,
                  surfaced |-> FALSE, via |-> "none", posted |-> FALSE,
                  payload |-> NoPayload, secret |-> Undefined,
                  storeAt |-> store]
      r == resolveSender(msg, acc.table, contacts, dir)
  IN IF msg.key.fromMe /\ ~isSelfChat(msg, acc.table, phone)
     THEN [acc EXCEPT !.out = Append(@, skipped)]
     ELSE IF ~Truthy(messageText(msg))
     THEN [acc EXCEPT !.out = Append(@, skipped)]
     ELSE [table |-> r.table,
           saved |-> acc.saved \/ r.saved,
           out |-> Append(acc.out,
                     [msg |-> msg, tableAt |-> acc.table, tableAfter |-> r.table,
                      surfaced |-> TRUE, via |-> r.via, posted |-> Truthy(url),
                      payload |-> webhookPayload(msg, r.phone),
                      secret |-> IF Truthy(url) THEN sendWebhook(apiKey)
                                 ELSE Undefined,
                      storeAt |-> store])]

RECURSIVE surfaceAll(_, _, _, _, _, _, _, _)
surfaceAll(acc, messages, phone, contacts, dir, url, apiKey, store) ==
  IF messages = <<>> THEN acc
  ELSE surfaceAll(surfaceOne(acc, Head(messages), phone, contacts, dir, url,
                             apiKey, store),
                  Tail(messages), phone, contacts, dir, url, apiKey, store)

\* the sendWebhook calls of one run of the loop
Posted(out) == Cardinality({i \in 1..Len(out) : out[i].posted})

(***************************************************************************)
(* Connection events (server.js:197-245)                                   *)
(*                                                                         *)
(* An update is [qr, connection, code]: whether update.qr is set,          *)
(* update.connection, and lastDisconnect?.error?.output?.statusCode.       *)
(* The handler works on [connectionStatus, qrDataUrl, connectedPhone,      *)
(* lastError, reconnectTimers, sessionDir].                                *)
(***************************************************************************)

\* DisconnectReason.loggedOut and one of the other codes (connectionClosed)
loggedOut == <<"4","0","1">>
connectionClosed == <<"4","2","8">>

\* what QRCode.toDataURL resolves to
QrUrl == <<"d","a","t","a",":">>

ErrReconnecting(code) ==
  <<"Disconnected (code ">> \o Template(code) \o <<"), reconnecting...">>
ErrLoggedOut == <<"Logged out. Delete sessions/ folder and restart to re-link.">>
ErrNotConnected == <<"Not connected to WhatsApp">>

\* a mutant: every close is taken for a transient one
onCloseAlwaysReconnect(st, code) ==
  [st EXCEPT !.connectionStatus = "disconnected", !.qrDataUrl = <<>>,
             !.connectedPhone = <<>>, !.lastError = ErrReconnecting(code),
             !.reconnectTimers = @ + 1]

\* a mutant: the connected phone survives the close
onCloseKeepPhone(st, code) ==
  IF code # loggedOut
  THEN [st EXCEPT !.connectionStatus = "disconnected", !.qrDataUrl = <<>>,
                  !.lastError = ErrReconnecting(code), !.reconnectTimers = @ + 1]
  ELSE [st EXCEPT !.connectionStatus = "disconnected", !.qrDataUrl = <<>>,
                  !.lastError = ErrLoggedOut, !.sessionDir = EmptyDir]

\* server.js:210-234
onClose(st, code) ==
  IF code # loggedOut
  THEN [st EXCEPT !.connectionStatus = "disconnected", !.qrDataUrl = <<>>,
                  !.connectedPhone = <<>>, !.lastError = ErrReconnecting(code),
                  !.reconnectTimers = @ + 1]
  ELSE [st EXCEPT !.connectionStatus = "disconnected", !.qrDataUrl = <<>>,
                  !.connectedPhone = <<>>, !.lastError = ErrLoggedOut,
                  !.sessionDir = EmptyDir]

\* server.js:242: me?.id?.split(":")[0] || me?.id?.split("@")[0] || ""
phoneOfMe(meId) ==
  IF meId = Undefined THEN <<>>
  ELSE Or(SplitHead(meId, ":"), Or(SplitHead(meId, "@"), <<>>))

\* a mutant: the open branch leaves lastError as it was
onOpenKeepsError(st, meId) ==
  [st EXCEPT !.connectionStatus = "connected", !.qrDataUrl = <<>>,
             !.connectedPhone = phoneOfMe(meId)]

\* server.js:236-244
onOpen(st, meId) ==
  [st EXCEPT !.connectionStatus = "connected", !.qrDataUrl = <<>>,
             !.lastError = <<>>, !.connectedPhone = phoneOfMe(meId)]

\* server.js:200-208, once QRCode.toDataURL has settled
onQr(st, rendered) ==
  IF rendered
  THEN [st EXCEPT !.qrDataUrl = QrUrl, !.connectionStatus = "qr_ready"]
  ELSE st

\* server.js:210-244
onConnection(st, u, meId) ==
  IF u.connection = "close" THEN onClose(st, u.code)
  ELSE IF u.connection = "open" THEN onOpen(st, meId)
  ELSE st

SessionState ==
  [connectionStatus |-> connectionStatus, qrDataUrl |-> qrDataUrl,
   connectedPhone |-> connectedPhone, lastError |-> lastError,
   reconnectTimers |-> reconnectTimers, sessionDir |-> sessionDir]

SetSession(st) ==
  /\ connectionStatus' = st.connectionStatus
  /\ qrDataUrl' = st.qrDataUrl
  /\ connectedPhone' = st.connectedPhone
  /\ lastError' = st.lastError
  /\ reconnectTimers' = st.reconnectTimers
  /\ sessionDir' = st.sessionDir

(***************************************************************************)
(* Bounds of the model                                                     *)
(***************************************************************************)

MaxSockets == 2    \* sockets made in one run of the process
MaxTimers == 2     \* reconnect timers pending at once
MaxStarts == 2     \* startBaileys invocations running at once
MaxRenders == 1    \* QR renderings outstanding at once
MaxSends == 1      \* POST /send requests waiting for the library at once
MaxResolves == 1   \* POST /resolve-numbers requests in their loop at once

\* what every handler run leaves in obs; a run fills in what it has
Obs(kind, input) ==
  [kind |-> kind, input |-> input, status |-> 0, body |-> Undefined,
   out |-> <<>>, called |-> 0, saved |-> FALSE]

InFlight ==
  Cardinality({i \in 1..Len(sockets) : sockets[i].live})
  + (IF starting.listen = "done" THEN 0 ELSE 1) + starting.auth + starting.version
  + reconnectTimers

(***************************************************************************)
(* startBaileys (server.js:149-172) and the timers                         *)
(***************************************************************************)

\* server.js:225: the reconnect timer expires and startBaileys runs up to its
\* first await (the session directory exists: server.js:151-153 does nothing)
ReconnectTimerFires ==
  /\ running
  /\ reconnectTimers > 0
  /\ starting.auth + starting.version < MaxStarts
  /\ reconnectTimers' = reconnectTimers - 1
  /\ starting' = [starting EXCEPT !.auth = @ + 1]
  /\ obs' = Obs("reconnect-timer", <<>>)
  /\ UNCHANGED <<messageStore, lidToPhone, lidSaveTimer, sessionDir, sock,
                 qrDataUrl, connectionStatus, connectedPhone, lastError, sockets,
                 renders, sends, resolves, WEBHOOK_URL, running, synced,
                 signedOut, API_KEY, closing>>

\* server.js:155: useMultiFileAuthState resolves
AuthStateLoaded(origin) ==
  /\ running
  /\ IF origin = "listen"
     THEN starting.listen = "auth"
          /\ starting' = [starting EXCEPT !.listen = "version"]
     ELSE starting.auth > 0
          /\ starting' = [starting EXCEPT !.auth = @ - 1, !.version = @ + 1]
  /\ obs' = Obs("auth-state", origin)
  /\ UNCHANGED <<messageStore, lidToPhone, lidSaveTimer, sessionDir, sock,
                 qrDataUrl, connectionStatus, connectedPhone, lastError, sockets,
                 reconnectTimers, renders, sends, resolves, WEBHOOK_URL, running,
                 synced, signedOut, API_KEY, closing>>

ErrStart == <<"startup failed">>

\* server.js:155-156 reject.  The first invocation is caught at
\* server.js:637-640; the one a timer made (server.js:225) has no handler:
\* its rejection is unhandled, which ends the process or only prints a
\* warning, as the runtime's unhandled-rejection mode has it.
StartThrows(origin) ==
  /\ running
  /\ IF origin = "listen"
     THEN /\ starting.listen # "done"
          /\ starting' = [starting EXCEPT !.listen = "done"]
          /\ lastError' = ErrStart
          /\ running' = running
     ELSE /\ \E stage \in {"auth", "version"}, exits \in BOOLEAN :
               /\ starting[stage] > 0
               /\ starting' = IF exits THEN starting
                              ELSE [starting EXCEPT ![stage] = @ - 1]
               /\ running' = ~exits
          /\ lastError' = lastError
  /\ obs' = Obs("start-throws", origin)
  /\ UNCHANGED <<messageStore, lidToPhone, lidSaveTimer, sessionDir, sock,
                 qrDataUrl, connectionStatus, connectedPhone, sockets,
                 reconnectTimers, renders, sends, resolves, WEBHOOK_URL,
                 synced, signedOut, API_KEY, closing>>

\* server.js:156-334: fetchLatestBaileysVersion resolves, the socket is made
\* and assigned to sock, and the handlers are subscribed on it
\* a mutant: the new socket is not assigned to sock
SocketMadeKeepsSock(origin) ==
  /\ running
  /\ Len(sockets) < MaxSockets
  /\ IF origin = "listen"
     THEN starting.listen = "version"
          /\ starting' = [starting EXCEPT !.listen = "done"]
     ELSE starting.version > 0
          /\ starting' = [starting EXCEPT !.version = @ - 1]
  /\ sockets' = Append(sockets, [live |-> TRUE, contacts |-> EmptyObject])
  /\ sock' = IF sock = 0 THEN 1 ELSE sock
  /\ obs' = Obs("socket-made", origin)
  /\ UNCHANGED <<messageStore, lidToPhone, lidSaveTimer, sessionDir, qrDataUrl,
                 connectionStatus, connectedPhone, lastError, reconnectTimers,
                 renders, sends, resolves, WEBHOOK_URL, running, synced,
                 signedOut, API_KEY, closing>>

SocketMade(origin) ==
  /\ running
  /\ Len(sockets) < MaxSockets
  /\ IF origin = "listen"
     THEN starting.listen = "version"
          /\ starting' = [starting EXCEPT !.listen = "done"]
     ELSE starting.version > 0
          /\ starting' = [starting EXCEPT !.version = @ - 1]
  /\ sockets' = Append(sockets, [live |-> TRUE, contacts |-> EmptyObject])
  /\ sock' = Len(sockets) + 1
  /\ obs' = Obs("socket-made", origin)
  /\ UNCHANGED <<messageStore, lidToPhone, lidSaveTimer, sessionDir, qrDataUrl,
                 connectionStatus, connectedPhone, lastError, reconnectTimers,
                 renders, sends, resolves, WEBHOOK_URL, running, synced,
                 signedOut, API_KEY, closing>>

\* server.js:70-83: the debounce timer of saveLidMap expires
LidSaveTimerFires ==
  /\ running
  /\ lidSaveTimer > 0
  /\ lidSaveTimer' = lidSaveTimer - 1
  /\ sessionDir' = flushLidMap(lidToPhone, sessionDir)
  /\ obs' = Obs("save-timer", sessionDir.lidMap)
  /\ UNCHANGED <<messageStore, lidToPhone, sock, qrDataUrl, connectionStatus,
                 connectedPhone, lastError, sockets, reconnectTimers, starting,
                 renders, sends, resolves, WEBHOOK_URL, running, synced,
                 signedOut, API_KEY, closing>>

(***************************************************************************)
(* The library's events, delivered to the handlers of any socket made      *)
(***************************************************************************)

\* server.js:210-213: the update is a close whose code is the sign-out code
isSignOut(u) == u.connection = "close" /\ u.code = loggedOut

\* server.js:197-245 for an update of socket s; meId is sock.user?.id as the
\* handler reads it.  With update.qr set the handler stops at server.js:202.
ConnectionUpdate(s, u, meId) ==
  /\ running
  /\ s \in 1..Len(sockets)
  /\ sockets' = IF u.connection = "close"
                THEN [sockets EXCEPT ![s].live = FALSE] ELSE sockets
  /\ IF u.qr
     THEN /\ Cardinality(renders) < MaxRenders
          /\ u \notin renders
          /\ renders' = renders \cup {u}
          /\ SetSession(SessionState)
          /\ signedOut' = signedOut
          /\ obs' = [Obs("connection.update", u) EXCEPT !.body = <<"await">>]
     ELSE /\ (u.connection = "close" /\ u.code # loggedOut)
               => reconnectTimers < MaxTimers
          /\ renders' = renders
          /\ SetSession(onConnection(SessionState, u, meId))
          /\ signedOut' = (signedOut \/ isSignOut(u))
          /\ obs' = Obs("connection.update", u)
  /\ UNCHANGED <<messageStore, lidToPhone, lidSaveTimer, sock, starting, sends,
                 resolves, WEBHOOK_URL, running, synced, API_KEY, closing>>

\* server.js:202-245: QRCode.toDataURL settles and the handler runs to its end
QrSettles(u, rendered, meId) ==
  /\ running
  /\ u \in renders
  /\ (u.connection = "close" /\ u.code # loggedOut) => reconnectTimers < MaxTimers
  /\ renders' = renders \ {u}
  /\ SetSession(onConnection(onQr(SessionState, rendered), u, meId))
  /\ signedOut' = (signedOut \/ isSignOut(u))
  /\ obs' = [Obs("connection.update", u) EXCEPT
               !.body = IF rendered THEN <<"rendered">> ELSE <<"render failed">>]
  /\ UNCHANGED <<messageStore, lidToPhone, lidSaveTimer, sock, sockets, starting,
                 sends, resolves, WEBHOOK_URL, running, synced, API_KEY,
                 closing>>

\* history of the contact events: the LIDs an event reports with a phone
\* while the table it finds has no mapping for them, each with the phone of
\* its first such report
RECURSIVE firstReports(_, _, _)
firstReports(seen, table, contacts) ==
  IF contacts = <<>> THEN seen
  ELSE LET c == Head(contacts)
           lid == SplitHead(c.id, "@")
       IN IF /\ Truthy(c.id) /\ EndsWith(c.id, AtLid) /\ Truthy(c.phoneNumber)
             /\ ~Truthy(Get(table, lid))
             /\ lid \notin DOMAIN seen
          THEN firstReports(Put(seen, lid, normalizePhone(c.phoneNumber)), table,
                            Tail(contacts))
          ELSE firstReports(seen, table, Tail(contacts))

\* server.js:178-194: contacts.set / contacts.update / contacts.upsert
ContactsEvent(contacts) ==
  \E acc \in {absorbLoop([table |-> lidToPhone, changed |-> FALSE], contacts)} :
     /\ running
     /\ Len(sockets) > 0
     /\ lidToPhone' = acc.table
     /\ lidSaveTimer' = saveLidMap(lidSaveTimer, acc.changed)
     /\ synced' = firstReports(synced, lidToPhone, contacts)
     /\ obs' = [Obs("contacts", contacts) EXCEPT
                  !.out = <<[tableAt |-> lidToPhone, changed |-> acc.changed]>>,
                  !.saved = acc.changed]
     /\ UNCHANGED <<messageStore, sessionDir, sock, qrDataUrl, connectionStatus,
                    connectedPhone, lastError, sockets, reconnectTimers, starting,
                    renders, sends, resolves, WEBHOOK_URL, running, signedOut,
                    API_KEY, closing>>

\* server.js:248-334: messages.upsert
MessagesUpsert(type, messages) ==
  /\ running
  /\ Len(sockets) > 0
  /\ IF type # "notify"
     THEN /\ UNCHANGED <<messageStore, lidToPhone, lidSaveTimer>>
          /\ obs' = Obs("messages.upsert", [type |-> type, messages |-> messages])
     ELSE \E store \in {storeAll(messageStore, messages)} :
          \E acc \in {surfaceAll([table |-> lidToPhone, saved |-> FALSE,
                                   out |-> <<>>],
                                  messages, connectedPhone, sockets[sock].contacts,
                                  sessionDir, WEBHOOK_URL, API_KEY, store)} :
          \E posted \in {Posted(acc.out)} :
            /\ messageStore' = store
            /\ lidToPhone' = acc.table
            /\ lidSaveTimer' = saveLidMap(lidSaveTimer, acc.saved)
            /\ obs' = [Obs("messages.upsert",
                            [type |-> type, messages |-> messages])
                         EXCEPT !.out = acc.out, !.called = posted,
                                !.saved = acc.saved]
  /\ UNCHANGED <<sessionDir, sock, qrDataUrl, connectionStatus, connectedPhone,
                 lastError, sockets, reconnectTimers, starting, renders, sends,
                 resolves, WEBHOOK_URL, running, synced, signedOut, API_KEY,
                 closing>>

\* requests of the run in obs that have not ended: obs.called counts the
\* sendWebhook calls of a messages.upsert run, and the requests still out
\* after one of them has ended
Pending(o) ==
  IF o.kind \in {"messages.upsert", "webhook-settles"} THEN o.called ELSE 0

\* server.js:357-369: the response, or the error event, of one webhook POST
\* arrives; both callbacks only log, reading and writing no state, so the
\* model follows the requests of a batch until another handler runs.
\* A retry would write the request again.
WebhookSettlesRetries(outcome) ==
  /\ running
  /\ Pending(obs) > 0
  /\ obs' = [Obs("webhook-settles", outcome) EXCEPT
               !.called = IF outcome = "2xx" THEN Pending(obs) - 1
                          ELSE Pending(obs)]
  /\ UNCHANGED <<messageStore, lidToPhone, lidSaveTimer, sessionDir, sock,
                 qrDataUrl, connectionStatus, connectedPhone, lastError, sockets,
                 reconnectTimers, starting, renders, sends, resolves, WEBHOOK_URL,
                 running, synced, signedOut, API_KEY, closing>>

WebhookSettles(outcome) ==
  /\ running
  /\ Pending(obs) > 0
  /\ obs' = [Obs("webhook-settles", outcome) EXCEPT !.called = Pending(obs) - 1]
  /\ UNCHANGED <<messageStore, lidToPhone, lidSaveTimer, sessionDir, sock,
                 qrDataUrl, connectionStatus, connectedPhone, lastError, sockets,
                 reconnectTimers, starting, renders, sends, resolves, WEBHOOK_URL,
                 running, synced, signedOut, API_KEY, closing>>

\* server.js:171: the library asks for a message's content (getMessage)
GetMessage(key) ==
  /\ running
  /\ Len(sockets) > 0
  /\ obs' = [Obs("getMessage", key) EXCEPT
               !.out = <<getMessage(messageStore, key)>>]
  /\ UNCHANGED <<messageStore, lidToPhone, lidSaveTimer, sessionDir, sock,
                 qrDataUrl, connectionStatus, connectedPhone, lastError, sockets,
                 reconnectTimers, starting, renders, sends, resolves, WEBHOOK_URL,
                 running, synced, signedOut, API_KEY, closing>>

\* server.js:290: the library's own contact directory (sock.contacts) gains
\* an entry
LibraryLearnsContact(jid, phoneNumber) ==
  /\ running
  /\ sock # 0
  /\ jid \notin DOMAIN sockets[sock].contacts
  /\ sockets' = [sockets EXCEPT ![sock].contacts = Put(@, jid, phoneNumber)]
  /\ obs' = Obs("library", <<>>)
  /\ UNCHANGED <<messageStore, lidToPhone, lidSaveTimer, sessionDir, sock,
                 qrDataUrl, connectionStatus, connectedPhone, lastError,
                 reconnectTimers, starting, renders, sends, resolves, WEBHOOK_URL,
                 running, synced, signedOut, API_KEY, closing>>

\* server.js:155, 300: the library's key store, which lives in SESSION_DIR,
\* writes a lid-mapping-<lid>_reverse.json record
LibraryWritesMapping(lid, phone) ==
  /\ running
  /\ sock # 0
  /\ lid \notin DOMAIN sessionDir.reverse
  /\ sessionDir' = [sessionDir EXCEPT !.reverse = Put(@, lid, phone)]
  /\ obs' = Obs("library", <<>>)
  /\ UNCHANGED <<messageStore, lidToPhone, lidSaveTimer, sock, qrDataUrl,
                 connectionStatus, connectedPhone, lastError, sockets,
                 reconnectTimers, starting, renders, sends, resolves, WEBHOOK_URL,
                 running, synced, signedOut, API_KEY, closing>>

\* server.js:175: creds.update, saveCreds writes the credential files
CredsUpdate ==
  /\ running
  /\ sock # 0
  /\ ~sessionDir.creds
  /\ sessionDir' = [sessionDir EXCEPT !.creds = TRUE]
  /\ obs' = Obs("creds.update", <<>>)
  /\ UNCHANGED <<messageStore, lidToPhone, lidSaveTimer, sock, qrDataUrl,
                 connectionStatus, connectedPhone, lastError, sockets,
                 reconnectTimers, starting, renders, sends, resolves, WEBHOOK_URL,
                 running, synced, signedOut, API_KEY, closing>>

(***************************************************************************)
(* HTTP requests (server.js:458-585)                                       *)
(***************************************************************************)

\* server.js:381, 398, 540: sock && connectionStatus === "connected"
Connected == sock # 0 /\ connectionStatus = "connected"

\* a mutant: the send path tests the session handle only
SendGuardSockOnly == sock # 0

\* server.js:381, 398
SendGuard == Connected

\* a mutant: the guard of the earlier resolve loop, which tests the handle only
ResolveGuardSockOnly == sock # 0

\* server.js:540
ResolveGuard == Connected

ErrMissingTo == <<"Missing 'to' field">>
ErrMissingText == <<"Missing 'text' field">>
ErrMissingPhones == <<"Missing 'phones' array">>
ErrInvalidJson == <<"Invalid JSON">>

\* server.js:494-529 up to the response or to the await of sock.sendMessage
\* (server.js:386, 419).  d is the parsed body, [valid, to, text, message,
\* media_url]; valid = FALSE is a body parseBody rejects.
SendRequest(d) ==
  LET text == Or(d.text, Or(d.message, <<>>))
      answer(status, body) ==
        /\ sends' = sends
        /\ obs' = [Obs("POST /send", d) EXCEPT !.status = status, !.body = body]
      call(media) ==
        /\ Cardinality(sends) < MaxSends
        /\ [to |-> d.to, media |-> media] \notin sends
        /\ sends' = sends \cup {[to |-> d.to, media |-> media]}
        /\ obs' = [Obs("POST /send", d) EXCEPT !.called = 1]
  IN /\ running
     /\ IF ~d.valid THEN answer(400, ErrInvalidJson)
        ELSE IF ~Truthy(d.to) THEN answer(400, ErrMissingTo)
        ELSE IF Truthy(d.media_url)
        THEN IF ~SendGuard THEN answer(500, ErrNotConnected) ELSE call(TRUE)
        ELSE IF ~Truthy(text) THEN answer(400, ErrMissingText)
        ELSE IF ~SendGuard THEN answer(500, ErrNotConnected)
        ELSE call(FALSE)
     /\ UNCHANGED <<messageStore, lidToPhone, lidSaveTimer, sessionDir, sock,
                    qrDataUrl, connectionStatus, connectedPhone, lastError,
                    sockets, reconnectTimers, starting, renders, resolves,
                    WEBHOOK_URL, running, synced, signedOut, API_KEY, closing>>

\* a mutant: a rejected send is handed to the library once more
SendSettlesRetries(e, r) ==
  /\ running
  /\ e \in sends
  /\ sends' = IF r.ok THEN sends \ {e} ELSE sends
  /\ messageStore' = IF r.ok /\ r.hasKey
                     THEN storeMessage(messageStore, r.key, r.message)
                     ELSE messageStore
  /\ obs' = IF r.ok
            THEN [Obs("POST /send settles", r) EXCEPT
                    !.status = 200,
                    !.body = IF r.hasKey THEN Or(r.key.id, <<>>) ELSE <<>>]
            ELSE [Obs("POST /send settles", r) EXCEPT
                    !.status = IF Truthy(r.error) THEN 500 ELSE 200,
                    !.body = r.error, !.called = 1]
  /\ UNCHANGED <<lidToPhone, lidSaveTimer, sessionDir, sock, qrDataUrl,
                 connectionStatus, connectedPhone, lastError, sockets,
                 reconnectTimers, starting, renders, resolves, WEBHOOK_URL,
                 running, synced, signedOut, API_KEY, closing>>

\* server.js:386-394, 419-427, 520-524: sock.sendMessage settles.  r is
\* [ok, hasKey, key, message, error]: the result (or no result) of a send the
\* library completed, or the error of one it rejected.
SendSettles(e, r) ==
  /\ running
  /\ e \in sends
  /\ sends' = sends \ {e}
  /\ messageStore' = IF r.ok /\ r.hasKey
                     THEN storeMessage(messageStore, r.key, r.message)
                     ELSE messageStore
  /\ obs' = IF r.ok
            THEN [Obs("POST /send settles", r) EXCEPT
                    !.status = 200,
                    !.body = IF r.hasKey THEN Or(r.key.id, <<>>) ELSE <<>>]
            ELSE [Obs("POST /send settles", r) EXCEPT
                    !.status = IF Truthy(r.error) THEN 500 ELSE 200,
                    !.body = r.error]
  /\ UNCHANGED <<lidToPhone, lidSaveTimer, sessionDir, sock, qrDataUrl,
                 connectionStatus, connectedPhone, lastError, sockets,
                 reconnectTimers, starting, renders, resolves, WEBHOOK_URL,
                 running, synced, signedOut, API_KEY, closing>>

\* server.js:532-549 up to the response or to the first await of
\* sock.onWhatsApp.  p is data.phones: [kind, items], kind "missing", "array"
\* or "other" (a value that is no array).
ResolveRequest(p) ==
  LET items == IF p.kind = "missing" THEN <<>> ELSE p.items
      answer(status, body) ==
        /\ resolves' = resolves
        /\ obs' = [Obs("POST /resolve-numbers", p) EXCEPT
                     !.status = status, !.body = body]
      entry == [todo |-> items, results |-> EmptyObject, newMappings |-> 0]
  IN /\ running
     /\ IF p.kind = "other" \/ items = <<>> THEN answer(400, ErrMissingPhones)
        ELSE IF ~ResolveGuard THEN answer(503, ErrNotConnected)
        ELSE /\ Cardinality(resolves) < MaxResolves
             /\ resolves' = resolves \cup {entry}
             /\ obs' = [Obs("POST /resolve-numbers", p) EXCEPT !.called = 1]
     /\ UNCHANGED <<messageStore, lidToPhone, lidSaveTimer, sessionDir, sock,
                    qrDataUrl, connectionStatus, connectedPhone, lastError,
                    sockets, reconnectTimers, starting, renders, sends,
                    WEBHOOK_URL, running, synced, signedOut, API_KEY, closing>>

\* server.js:549-570: sock.onWhatsApp settles for the first phone still to do;
\* the loop goes on to its next await, or ends and the response is sent.
\* a is [kind, jid]: "found" (jids[0].exists, with jids[0].jid), "none", or
\* "throws".
\* server.js:547-564, one turn of the loop on the answer a of sock.onWhatsApp:
\* the loop's variables and the table after it
resolveTurn(e, lids, a) ==
  LET phone == Head(e.todo)
      jidId == SplitHead(a.jid, "@")
      isLid == EndsWith(a.jid, AtLid)
      isNew == a.kind = "found" /\ isLid /\ Get(lids, jidId) # phone
      result == IF a.kind = "found" THEN [jid |-> a.jid, isLid |-> isLid]
                ELSE IF a.kind = "none" THEN [jid |-> Undefined, isLid |-> FALSE]
                ELSE [error |-> <<"lookup failed">>]
  IN [table |-> IF a.kind = "found" /\ isLid
                THEN absorbOne(lids, jidId, phone) ELSE lids,
      next |-> [todo |-> Tail(e.todo),
                results |-> Put(e.results, phone, result),
                newMappings |-> e.newMappings + (IF isNew THEN 1 ELSE 0)]]

ResolveAnswer(e, a) ==
  \E turn \in {resolveTurn(e, lidToPhone, a)} :
  \E table \in {turn.table}, next \in {turn.next} :
     /\ running
     /\ e \in resolves
     /\ lidToPhone' = table
     /\ IF next.todo # <<>>
        THEN /\ resolves' = (resolves \ {e}) \cup {next}
             /\ lidSaveTimer' = lidSaveTimer
             /\ obs' = [Obs("POST /resolve-numbers answer", a) EXCEPT !.called = 1]
        ELSE /\ resolves' = resolves \ {e}
             /\ lidSaveTimer' = saveLidMap(lidSaveTimer, next.newMappings > 0)
             /\ obs' = [Obs("POST /resolve-numbers answer", a) EXCEPT
                          !.status = 200,
                          !.out = <<[resolved |-> next.results,
                                     total_mappings |-> Cardinality(DOMAIN table)]>>,
                          !.saved = next.newMappings > 0]
     /\ UNCHANGED <<messageStore, sessionDir, sock, qrDataUrl, connectionStatus,
                    connectedPhone, lastError, sockets, reconnectTimers, starting,
                    renders, sends, WEBHOOK_URL, running, synced, signedOut,
                    API_KEY, closing>>

ErrNotFound == <<"Not found">>

\* server.js:473-481: GET /status.  The body is [status, phone, has_qr, error].
StatusRequest ==
  /\ running
  /\ obs' = [Obs("GET /status", <<>>) EXCEPT
               !.status = 200,
               !.out = <<[status |-> connectionStatus, phone |-> connectedPhone,
                          has_qr |-> (connectionStatus = "qr_ready"
                                      /\ qrDataUrl # <<>>),
                          error |-> lastError]>>]
  /\ UNCHANGED <<messageStore, lidToPhone, lidSaveTimer, sessionDir, sock,
                 qrDataUrl, connectionStatus, connectedPhone, lastError, sockets,
                 reconnectTimers, starting, renders, sends, resolves, WEBHOOK_URL,
                 running, synced, signedOut, API_KEY, closing>>

\* a mutant: GET /qr hands the pairing payload out once and clears it
QrRequestConsumes ==
  /\ running
  /\ obs' = [Obs("GET /qr", <<>>) EXCEPT
               !.status = 200,
               !.out = IF connectionStatus = "qr_ready" /\ Truthy(qrDataUrl)
                       THEN <<[available |-> TRUE, qr_data_url |-> qrDataUrl]>>
                       ELSE <<[available |-> FALSE, qr_data_url |-> <<>>]>>]
  /\ qrDataUrl' = <<>>
  /\ UNCHANGED <<messageStore, lidToPhone, lidSaveTimer, sessionDir, sock,
                 connectionStatus, connectedPhone, lastError, sockets,
                 reconnectTimers, starting, renders, sends, resolves, WEBHOOK_URL,
                 running, synced, signedOut, API_KEY, closing>>

\* server.js:484-491: GET /qr.  The body is [available, qr_data_url].
QrRequest ==
  /\ running
  /\ obs' = [Obs("GET /qr", <<>>) EXCEPT
               !.status = 200,
               !.out = IF connectionStatus = "qr_ready" /\ Truthy(qrDataUrl)
                       THEN <<[available |-> TRUE, qr_data_url |-> qrDataUrl]>>
                       ELSE <<[available |-> FALSE, qr_data_url |-> <<>>]>>]
  /\ UNCHANGED <<messageStore, lidToPhone, lidSaveTimer, sessionDir, sock,
                 qrDataUrl, connectionStatus, connectedPhone, lastError, sockets,
                 reconnectTimers, starting, renders, sends, resolves, WEBHOOK_URL,
                 running, synced, signedOut, API_KEY, closing>>

\* server.js:577-581: GET /health
HealthRequest ==
  /\ running
  /\ obs' = [Obs("GET /health", <<>>) EXCEPT !.status = 200]
  /\ UNCHANGED <<messageStore, lidToPhone, lidSaveTimer, sessionDir, sock,
                 qrDataUrl, connectionStatus, connectedPhone, lastError, sockets,
                 reconnectTimers, starting, renders, sends, resolves, WEBHOOK_URL,
                 running, synced, signedOut, API_KEY, closing>>

\* server.js:583-584: any other route or method
UnknownRoute ==
  /\ running
  /\ obs' = [Obs("unknown route", <<>>) EXCEPT
               !.status = 404, !.body = ErrNotFound]
  /\ UNCHANGED <<messageStore, lidToPhone, lidSaveTimer, sessionDir, sock,
                 qrDataUrl, connectionStatus, connectedPhone, lastError, sockets,
                 reconnectTimers, starting, renders, sends, resolves, WEBHOOK_URL,
                 running, synced, signedOut, API_KEY, closing>>

(***************************************************************************)
(* Shutdown (server.js:643-654)                                            *)
(***************************************************************************)

\* server.js:643-647, 649-653: the handler of SIGTERM or SIGINT.  sock.end
\* closes the session handle, if there is one; server.close stops the
\* listening and calls back once every open connection has ended.  The close
\* event of the ended handle reaches the connection.update handler like any
\* other close.
ShutdownSignal(signal) ==
  /\ running
  /\ sockets' = IF sock # 0 THEN [sockets EXCEPT ![sock].live = FALSE]
                ELSE sockets
  /\ closing' = TRUE
  /\ obs' = Obs("signal", signal)
  /\ UNCHANGED <<messageStore, lidToPhone, lidSaveTimer, sessionDir, sock,
                 qrDataUrl, connectionStatus, connectedPhone, lastError,
                 reconnectTimers, starting, renders, sends, resolves, WEBHOOK_URL,
                 running, synced, signedOut, API_KEY>>

\* server.js:646, 652: the callback of server.close, process.exit(0)
ServerClosed ==
  /\ running
  /\ closing
  /\ running' = FALSE
  /\ obs' = Obs("exit", <<>>)
  /\ UNCHANGED <<messageStore, lidToPhone, lidSaveTimer, sessionDir, sock,
                 qrDataUrl, connectionStatus, connectedPhone, lastError, sockets,
                 reconnectTimers, starting, renders, sends, resolves, WEBHOOK_URL,
                 synced, signedOut, API_KEY, closing>>

(***************************************************************************)
(* Inputs                                                                  *)
(***************************************************************************)

P1 == <<"1">>
P2 == <<"2">>
L8 == <<"8">>
L9 == <<"9">>
TextH == <<"h">>
IdA == <<"a">>
IdB == <<"b">>
Url == <<"h","t","t","p",":","/","/","w">>
Me1 == <<"1",":","7">> \o AtUser

Msg(jid, id, fromMe, message) ==
  [key |-> [remoteJid |-> jid, id |-> id, fromMe |-> fromMe,
            participant |-> Undefined],
   message |-> message, pushName |-> Undefined]

Update(qr, connection, code) == [qr |-> qr, connection |-> connection, code |-> code]

SendBody(to, text, message, media_url) ==
  [valid |-> TRUE, to |-> to, text |-> text, message |-> message,
   media_url |-> media_url]

SendResult(to, id, message) ==
  [ok |-> TRUE, hasKey |-> TRUE,
   key |-> [remoteJid |-> to, id |-> id, fromMe |-> TRUE, participant |-> Undefined],
   message |-> message, error |-> Undefined]

SendRejected(error) ==
  [ok |-> FALSE, hasKey |-> FALSE,
   key |-> [remoteJid |-> Undefined, id |-> Undefined, fromMe |-> TRUE,
            participant |-> Undefined],
   message |-> NoMessage, error |-> error]

(***************************************************************************)
(* Specifications.  The process is four nearly independent parts (the      *)
(* connection lifecycle, the HTTP guards, the message store, the identity  *)
(* table); each specification drives the handlers that write one part's    *)
(* variables, from the same initial state and with the same actions.       *)
(***************************************************************************)

\* the state once the module is loaded and server.listen's callback has run
\* (server.js:99, 591-641): loadLidMap has read the session directory and
\* the first startBaileys waits at server.js:155
InitWith(dirs, urls, keys) ==
  /\ messageStore = <<>>
  /\ sessionDir \in dirs
  /\ lidToPhone = loadLidMap(EmptyObject, sessionDir)
  /\ lidSaveTimer = 0
  /\ sock = 0
  /\ qrDataUrl = <<>>
  /\ connectionStatus = "disconnected"
  /\ connectedPhone = <<>>
  /\ lastError = <<>>
  /\ sockets = <<>>
  /\ reconnectTimers = 0
  /\ starting = [listen |-> "auth", auth |-> 0, version |-> 0]
  /\ renders = {}
  /\ sends = {}
  /\ resolves = {}
  /\ WEBHOOK_URL \in urls
  /\ running = TRUE
  /\ obs = Obs("listen", <<>>)
  /\ synced = EmptyObject
  /\ signedOut = FALSE
  /\ API_KEY \in keys
  /\ closing = FALSE

InitOn(dirs, urls) == InitWith(dirs, urls, {<<>>})

\* a session directory an earlier run of the process left: credentials and
\* a flushed table
PairedDir ==
  flushLidMap([l \in {L8} |-> P1], [EmptyDir EXCEPT !.creds = TRUE])

MeOf(u, meIds) == IF u.connection = "open" THEN meIds ELSE {Undefined}

(* ---- the connection lifecycle ---- *)

LifecycleUpdates ==
  {Update(TRUE, "none", Undefined), Update(FALSE, "open", Undefined),
   Update(FALSE, "close", loggedOut), Update(FALSE, "close", connectionClosed),
   Update(FALSE, "close", Undefined), Update(TRUE, "close", connectionClosed),
   Update(TRUE, "open", Undefined)}

Init == InitOn({EmptyDir, PairedDir}, {Url})

Next ==
  \/ ReconnectTimerFires
  \/ \E o \in {"listen", "timer"} : AuthStateLoaded(o)
  \/ \E o \in {"listen", "timer"} : StartThrows(o)
  \/ \E o \in {"listen", "timer"} : SocketMade(o)
  \/ \E s \in 1..MaxSockets, u \in LifecycleUpdates :
       \E me \in MeOf(u, {Undefined, Me1}) : ConnectionUpdate(s, u, me)
  \/ \E u \in LifecycleUpdates, rendered \in BOOLEAN :
       \E me \in MeOf(u, {Undefined, Me1}) : QrSettles(u, rendered, me)
  \/ CredsUpdate

Spec == Init /\ [][Next]_vars

(* ---- the HTTP guards ---- *)

HttpUpdates ==
  {Update(TRUE, "none", Undefined), Update(FALSE, "open", Undefined),
   Update(FALSE, "close", loggedOut)}

To1 == P1 \o AtUser

HttpSendBodies ==
  {SendBody(Undefined, TextH, Undefined, Undefined),
   SendBody(<<>>, Undefined, Undefined, Url),
   SendBody(To1, Undefined, Undefined, Undefined),
   SendBody(To1, <<>>, <<>>, Undefined),
   SendBody(To1, <<>>, TextH, Undefined),
   SendBody(To1, TextH, Undefined, Undefined),
   SendBody(To1, Undefined, Undefined, Url),
   [SendBody(Undefined, Undefined, Undefined, Undefined) EXCEPT !.valid = FALSE]}

HttpPhoneLists ==
  {[kind |-> "missing", items |-> <<>>], [kind |-> "other", items |-> <<>>],
   [kind |-> "array", items |-> <<>>], [kind |-> "array", items |-> <<P1>>],
   [kind |-> "array", items |-> <<P1, P2>>]}

HttpAnswers ==
  {[kind |-> "found", jid |-> L8 \o AtLid], [kind |-> "found", jid |-> To1],
   [kind |-> "none", jid |-> Undefined], [kind |-> "throws", jid |-> Undefined]}

InitHttp == InitOn({EmptyDir}, {Url})

NextHttp ==
  \/ AuthStateLoaded("listen")
  \/ SocketMade("listen")
  \/ \E u \in HttpUpdates : \E me \in MeOf(u, {Me1}) : ConnectionUpdate(1, u, me)
  \/ \E u \in HttpUpdates, rendered \in BOOLEAN : QrSettles(u, rendered, Undefined)
  \/ \E d \in HttpSendBodies : SendRequest(d)
  \/ \E e \in sends :
       \/ SendSettles(e, SendResult(e.to, IdA, Content(TextH, Undefined)))
       \/ SendSettles(e, SendRejected(<<"timed out">>))
  \/ \E p \in HttpPhoneLists : ResolveRequest(p)
  \/ \E e \in resolves, a \in HttpAnswers : ResolveAnswer(e, a)
  \/ LidSaveTimerFires

SpecHttp == InitHttp /\ [][NextHttp]_vars

(* ---- the message store ---- *)

Jid2 == P2 \o AtUser
Lid8 == L8 \o AtLid
Lid9 == L9 \o AtLid

\* a result whose key is missing (result?.key is undefined)
SendNoKey == [SendRejected(Undefined) EXCEPT !.ok = TRUE]

StoreContents == {Content(TextH, Undefined), Content(Undefined, TextH)}

StoreMessages ==
  {Msg(j, i, FALSE, c) : j \in {To1, Lid8}, i \in {IdA, IdB}, c \in StoreContents}
  \cup {Msg(To1, IdA, FALSE, NoMessage)}

\* every batch of one message, and the batches of two that start with a
\* message of the first chat
StoreBatches ==
  {<<m>> : m \in StoreMessages}
  \cup {<<m, n>> : m \in {Msg(To1, IdA, FALSE, Content(TextH, Undefined)),
                           Msg(To1, IdB, FALSE, Content(TextH, Undefined))},
                   n \in StoreMessages}

StoreKeyInputs ==
  {[remoteJid |-> j, id |-> i] : j \in {To1, Lid8}, i \in {IdA, IdB}}

\* the update that opens the connection
OpenUpdate == Update(FALSE, "open", Undefined)

\* a batch of history messages (type "append")
AppendBatch == <<Msg(Lid8, IdB, FALSE, Content(TextH, Undefined))>>

StoreSendBody == SendBody(To1, TextH, Undefined, Undefined)

\* a text send and a media send (data.media_url set)
StoreSendBodies == {StoreSendBody, SendBody(To1, Undefined, Undefined, Url)}

\* how a webhook POST ends: a response below 400, a response of 400 or more,
\* an error event of the request
WebhookOutcomes == {"2xx", "non-2xx", "error"}

InitStore == InitOn({EmptyDir}, {Url})

NextStore ==
  \/ AuthStateLoaded("listen")
  \/ SocketMade("listen")
  \/ ConnectionUpdate(1, OpenUpdate, Me1)
  \/ \E b \in StoreBatches : MessagesUpsert("notify", b)
  \/ MessagesUpsert("append", AppendBatch)
  \/ \E k \in StoreKeyInputs : GetMessage(k)
  \/ \E d \in StoreSendBodies : SendRequest(d)
  \/ \E e \in sends, i \in {IdA, IdB} :
       SendSettles(e, SendResult(e.to, i, Content(Undefined, TextH)))
  \/ \E e \in sends : SendSettles(e, SendNoKey)
  \/ \E e \in sends : SendSettles(e, SendRejected(<<"timed out">>))

SpecStore == InitStore /\ [][NextStore]_vars

(* ---- the identity table and the inbound path ---- *)

Plus1 == <<"+", "1">>

\* a session directory in which only the library has written: a
\* lid-mapping-<lid>_reverse.json record and no lid_map.json
LegacyDir == [EmptyDir EXCEPT !.creds = TRUE, !.reverse = [l \in {L8} |-> P2]]

TextMessage == Content(TextH, Undefined)

\* text-bearing messages of four chats (the connected phone's own, another
\* phone's, a LID the directories may know, a LID nothing knows), sent by
\* the other side or echoed from the account's own devices, and one message
\* without content
IdentityMessages ==
  {Msg(j, IdA, fromMe, TextMessage) :
     j \in {To1, Jid2, Lid8, Lid9}, fromMe \in BOOLEAN}
  \cup {Msg(Lid8, IdA, FALSE, NoMessage)}

IdentityBatches ==
  {<<m>> : m \in IdentityMessages}
  \cup {<<Msg(Lid8, IdA, FALSE, TextMessage), Msg(Lid8, IdA, TRUE, TextMessage)>>}

Contact(id, phoneNumber) == [id |-> id, phoneNumber |-> phoneNumber]

ContactLists ==
  {<<Contact(Lid8, Plus1)>>, <<Contact(Lid8, P2)>>,
   <<Contact(Lid9, Undefined), Contact(To1, P1)>>}

ResolvePhones == [kind |-> "array", items |-> <<P2>>]

InitIdentity == InitOn({EmptyDir, PairedDir, LegacyDir}, {Url, <<>>})

NextIdentity ==
  \/ AuthStateLoaded("listen")
  \/ SocketMade("listen")
  \/ ConnectionUpdate(1, OpenUpdate, Me1)
  \/ \E c \in ContactLists : ContactsEvent(c)
  \/ \E b \in IdentityBatches : MessagesUpsert("notify", b)
  \/ LibraryLearnsContact(Lid8, Plus1)
  \/ LibraryWritesMapping(L8, P1)
  \/ ResolveRequest(ResolvePhones)
  \/ \E e \in resolves :
       \/ ResolveAnswer(e, [kind |-> "found", jid |-> Lid8])
       \/ ResolveAnswer(e, [kind |-> "found", jid |-> Jid2])
  \/ LidSaveTimerFires

SpecIdentity == InitIdentity /\ [][NextIdentity]_vars

(* ---- every kind of handler, for what each may write ---- *)

FrameUpdates ==
  {Update(TRUE, "none", Undefined), OpenUpdate,
   Update(FALSE, "close", connectionClosed)}

FrameBatch == <<Msg(To1, IdA, FALSE, TextMessage)>>

FrameAnswer == [kind |-> "found", jid |-> Jid2]

FrameContacts == <<Contact(Lid8, Plus1)>>

InitFrame == InitOn({EmptyDir}, {Url})

NextFrame ==
  \/ AuthStateLoaded("listen")
  \/ SocketMade("listen")
  \/ ReconnectTimerFires
  \/ \E u \in FrameUpdates : ConnectionUpdate(1, u, Me1)
  \/ \E u \in FrameUpdates : QrSettles(u, TRUE, Me1)
  \/ StatusRequest
  \/ QrRequest
  \/ HealthRequest
  \/ UnknownRoute
  \/ SendRequest(StoreSendBody)
  \/ \E e \in sends : SendSettles(e, SendResult(e.to, IdA, TextMessage))
  \/ ResolveRequest(ResolvePhones)
  \/ \E e \in resolves : ResolveAnswer(e, FrameAnswer)
  \/ MessagesUpsert("notify", FrameBatch)
  \/ ContactsEvent(FrameContacts)
  \/ LidSaveTimerFires
  \/ \E o \in WebhookOutcomes : WebhookSettles(o)

SpecFrame == InitFrame /\ [][NextFrame]_vars

(* ---- the reconnect after a close ---- *)

ReconnectUpdates ==
  {OpenUpdate, Update(FALSE, "close", connectionClosed),
   Update(FALSE, "close", Undefined), Update(FALSE, "close", loggedOut)}

\* startBaileys invocations a reconnect timer stands for or has started
Attempts == reconnectTimers + starting.auth + starting.version

\* a close is taken while the sockets of the model leave room for the
\* socket its reconnect will make
Room(u) ==
  isSignOut(u) \/ u.connection # "close"
  \/ Len(sockets) + Attempts + (IF starting.listen = "done" THEN 0 ELSE 1)
       < MaxSockets

NextReconnect ==
  \/ ReconnectTimerFires
  \/ \E o \in {"listen", "timer"} : AuthStateLoaded(o)
  \/ \E o \in {"listen", "timer"} : SocketMade(o)
  \/ \E s \in 1..MaxSockets, u \in ReconnectUpdates :
       Room(u) /\ ConnectionUpdate(s, u, Me1)
  \/ CredsUpdate

\* the timer of server.js:225 expires, and the awaits of startBaileys
\* (server.js:155-156) resolve
SpecReconnect ==
  /\ Init /\ [][NextReconnect]_vars
  /\ WF_vars(ReconnectTimerFires)
  /\ WF_vars(AuthStateLoaded("timer"))
  /\ WF_vars(SocketMade("timer"))

(* ---- the shutdown ---- *)

Signals == {"SIGTERM", "SIGINT"}

NextShutdown ==
  \/ ReconnectTimerFires
  \/ \E o \in {"listen", "timer"} : AuthStateLoaded(o)
  \/ \E o \in {"listen", "timer"} : SocketMade(o)
  \/ \E s \in 1..MaxSockets, u \in ReconnectUpdates :
       Room(u) /\ ConnectionUpdate(s, u, Me1)
  \/ StatusRequest
  \/ \E signal \in Signals : ShutdownSignal(signal)
  \/ ServerClosed

SpecShutdown == Init /\ [][NextShutdown]_vars

(* ---- the persistence of the identity table ---- *)

PersistUpdates == {OpenUpdate, Update(FALSE, "close", loggedOut)}

PersistBatch == <<Msg(Lid9, IdA, FALSE, TextMessage)>>

\* the same number written in two ways, and the directory's answer to both
TwicePhones == [kind |-> "array", items |-> <<P1, Plus1>>]

LidAnswer == [kind |-> "found", jid |-> Lid8]

InitPersist == InitOn({EmptyDir, PairedDir}, {Url})

NextPersist ==
  \/ AuthStateLoaded("listen")
  \/ SocketMade("listen")
  \/ \E u \in PersistUpdates : ConnectionUpdate(1, u, Me1)
  \/ \E c \in ContactLists : ContactsEvent(c)
  \/ LibraryLearnsContact(Lid9, P2)
  \/ MessagesUpsert("notify", PersistBatch)
  \/ ResolveRequest(TwicePhones)
  \/ \E e \in resolves : ResolveAnswer(e, LidAnswer)
  \/ LidSaveTimerFires

\* the timeout of saveLidMap expires unless clearTimeout takes it first, and
\* a later saveLidMap sets the next one
SpecPersist == InitPersist /\ [][NextPersist]_vars /\ WF_vars(LidSaveTimerFires)

(* ---- the inbound path and the webhook ---- *)

Key == <<"k">>

\* a message from another phone, an echo of the account's own message to that
\* phone, a message of the account to itself, a message whose content has no
\* text, a message without content
TextG == <<"g">>

\* messages with a plain text, with both variants, with an empty plain text
\* and an extended one, with another content variant, with two empty texts,
\* and without content
WebhookMessages ==
  {Msg(Jid2, IdA, FALSE, TextMessage), Msg(Jid2, IdB, TRUE, TextMessage),
   Msg(To1, IdA, TRUE, TextMessage),
   Msg(Jid2, IdA, FALSE, Content(TextH, TextG)),
   Msg(Jid2, IdB, FALSE, Content(<<>>, TextG)),
   Msg(Lid8, IdB, FALSE, Content(Undefined, Undefined)),
   Msg(Lid8, IdA, FALSE, Content(<<>>, <<>>)),
   Msg(Lid8, IdA, FALSE, NoMessage)}

WebhookBatches ==
  {<<m>> : m \in WebhookMessages} \cup {<<m, n>> : m, n \in WebhookMessages}

InitWebhook == InitWith({EmptyDir}, {Url, <<>>}, {Key, <<>>})

NextWebhook ==
  \/ AuthStateLoaded("listen")
  \/ SocketMade("listen")
  \/ ConnectionUpdate(1, OpenUpdate, Me1)
  \/ \E b \in WebhookBatches : MessagesUpsert("notify", b)
  \/ MessagesUpsert("append", AppendBatch)
  \/ \E o \in WebhookOutcomes : WebhookSettles(o)

SpecWebhook == InitWebhook /\ [][NextWebhook]_vars

(***************************************************************************)
(* Properties of the session information's frame                           *)
(***************************************************************************)

\* C11: connectionStatus, connectedPhone and the pairing payload (qrDataUrl)
\* change only in a run of the connection.update handler: every HTTP request,
\* message event, contact event, timer expiry and startup step leaves the
\* three as they were.
C11_SessionInfoFrame ==
  [][obs'.kind # "connection.update" =>
       /\ connectionStatus' = connectionStatus
       /\ connectedPhone' = connectedPhone
       /\ qrDataUrl' = qrDataUrl]_vars

\* C11 witness: GET /qr has been answered with the pairing payload, which is
\* still there, as is the status
C11_Witness ==
  /\ obs.kind = "GET /qr"
  /\ obs.out[1].available
  /\ qrDataUrl = QrUrl
  /\ connectionStatus = "qr_ready"

\* an open event handled to its end (server.js:236-244)
OpenHandled(o) ==
  /\ o.kind = "connection.update"
  /\ o.input.connection = "open"
  /\ o.body # <<"await">>

\* C21: handling an open event sets connectionStatus to connected, sets
\* connectedPhone to the identity parsed from the session handle's
\* self-identifier (1 for the identifier 1:7@s.whatsapp.net), and clears the
\* pairing payload and lastError; the GET /status answered next reports
\* status connected, that phone, has_qr false and an empty error, and the
\* GET /qr answered next reports available false.
C21_OpenConnects ==
  [][/\ OpenHandled(obs') =>
          /\ connectionStatus' = "connected"
          /\ connectedPhone' = P1
          /\ qrDataUrl' = <<>>
          /\ lastError' = <<>>
     /\ (OpenHandled(obs) /\ obs'.kind = "GET /status") =>
          obs'.out = <<[status |-> "connected", phone |-> P1,
                        has_qr |-> FALSE, error |-> <<>>]>>
     /\ (OpenHandled(obs) /\ obs'.kind = "GET /qr") =>
          /\ Len(obs'.out) = 1
          /\ ~obs'.out[1].available]_vars

\* C21 witness: an open event has been handled and has cleared the error of
\* an earlier close
C21_Witness ==
  /\ OpenHandled(obs)
  /\ connectionStatus = "connected"
  /\ connectedPhone = P1
  /\ \E i \in 1..Len(sockets) : ~sockets[i].live

(***************************************************************************)
(* Properties of the webhook delivery                                      *)
(***************************************************************************)

UpsertRecords(o) ==
  IF o.kind = "messages.upsert" THEN {o.out[i] : i \in 1..Len(o.out)} ELSE {}

\* C15: webhook delivery is fire-and-forget. A run of the messages.upsert
\* handler writes exactly one POST for each message it surfaces when
\* WEBHOOK_URL is set, and none when it is empty or the message is not
\* surfaced; the request carries the X-Webhook-Secret header (with API_KEY as
\* its value) exactly when API_KEY is set; store and table come out of the
\* run as they do with no endpoint configured. When a POST ends, with a
\* response below 400, a response of 400 or more, or a transport error, no
\* request is written again, and session information, identity table, its
\* flush and the message store stay as they are.
C15_FireAndForget ==
  [][ /\ \A r \in UpsertRecords(obs') :
           /\ r.posted <=> (r.surfaced /\ WEBHOOK_URL # <<>>)
           /\ r.secret = IF r.posted /\ API_KEY # <<>> THEN API_KEY
                         ELSE Undefined
           /\ r.posted => r.payload # NoPayload
      /\ obs'.kind = "messages.upsert" =>
           LET quiet == surfaceAll([table |-> lidToPhone, saved |-> FALSE,
                                    out |-> <<>>],
                                   obs'.input.messages, connectedPhone,
                                   sockets[sock].contacts, sessionDir, <<>>, <<>>,
                                   messageStore')
               n == Cardinality({i \in 1..Len(obs'.out) : obs'.out[i].surfaced})
           IN /\ obs'.called = IF WEBHOOK_URL # <<>> THEN n ELSE 0
              /\ obs'.input.type = "notify" =>
                   /\ lidToPhone' = quiet.table
                   /\ Len(obs'.out) = Len(quiet.out)
                   /\ \A i \in 1..Len(quiet.out) :
                        /\ obs'.out[i].surfaced = quiet.out[i].surfaced
                        /\ obs'.out[i].payload = quiet.out[i].payload
      /\ obs'.kind = "webhook-settles" =>
           /\ obs'.called = obs.called - 1
           /\ UNCHANGED <<connectionStatus, connectedPhone, qrDataUrl, lastError,
                          lidToPhone, lidSaveTimer, sessionDir, messageStore,
                          sock, sockets, reconnectTimers, running>> ]_vars

\* a POST with the secret header has ended with a response of 400 or more
\* while the one written after it is still out
C15_Witness ==
  /\ obs.kind = "webhook-settles" /\ obs.input = "non-2xx"
  /\ obs.called = 1
  /\ API_KEY = Key
  /\ messageStore # <<>>

(***************************************************************************)
(* Properties of the message store                                         *)
(***************************************************************************)

\* the (key, content) pairs a handler run hands to storeMessage, in order
StoreInserts(o) ==
  IF o.kind = "messages.upsert" /\ o.input.type = "notify"
  THEN SelectSeq(o.input.messages, LAMBDA m : m.message.present)
  ELSE IF o.kind = "POST /send settles" /\ o.input.ok /\ o.input.hasKey
  THEN <<[key |-> o.input.key, message |-> o.input.message]>>
  ELSE <<>>

IdOf(key) == Template(key.remoteJid) \o <<":">> \o Template(key.id)

\* first-in-first-out insertion into a store of at most MAX_STORE_SIZE
\* entries kept in insertion order: an entry whose key is there is replaced
\* where it stands; a new key goes last, and when the store is full the
\* first entry, and only that one, goes
FifoInsert(s, id, message) ==
  LET e == [id |-> id, message |-> message]
  IN IF \E i \in 1..Len(s) : s[i].id = id
     THEN [i \in 1..Len(s) |-> IF s[i].id = id THEN e ELSE s[i]]
     ELSE IF Len(s) < MAX_STORE_SIZE THEN s \o <<e>>
     ELSE SubSeq(s, 2, Len(s)) \o <<e>>

RECURSIVE FifoInsertAll(_, _)
FifoInsertAll(s, inserts) ==
  IF inserts = <<>> THEN s
  ELSE FifoInsertAll(FifoInsert(s, IdOf(Head(inserts).key), Head(inserts).message),
                     Tail(inserts))

\* C1: the message store never holds more than MAX_STORE_SIZE entries; every
\* handler run leaves it as first-in-first-out insertion of the pairs it
\* stored leaves it (an insert of a new key into a full store drops exactly
\* the earliest-inserted entry, an overwrite keeps the key's place); a run
\* that stores nothing, a getMessage read included, leaves it as it was.
C1_BoundedFifoStore ==
  [][/\ Len(messageStore') <= MAX_STORE_SIZE
     /\ messageStore' = FifoInsertAll(messageStore, StoreInserts(obs'))
     /\ obs'.kind = "getMessage" => messageStore' = messageStore]_vars

\* C1 witness: a run that stored one message has overwritten the earliest
\* key of a full store, which is still the first although the other keys
\* were inserted after it
C1_Witness ==
  /\ Len(StoreInserts(obs)) = 1
  /\ Len(messageStore) = MAX_STORE_SIZE
  /\ messageStore[1].id = IdOf(StoreInserts(obs)[1].key)
  /\ messageStore[1].message = StoreInserts(obs)[1].message

\* the entry of the store filed under a (chat, message id) pair, if any
Lookup(s, key) ==
  LET hits == {i \in 1..Len(s) : s[i].id = IdOf(key)}
  IN IF hits = {} THEN NoMessage ELSE s[CHOOSE i \in hits : TRUE].message

SamePair(k1, k2) == k1.remoteJid = k2.remoteJid /\ k1.id = k2.id

\* C14: put/get of the message store.  After a handler run, getMessage for a
\* pair the run stored returns the content of the run's last put for that
\* pair (or absent, when the entry was evicted again); the last put of a
\* run is always readable; getMessage for a pair the run did not store
\* returns what it returned before, or absent after an eviction, so that a
\* put for one pair never changes what another pair reads; and a getMessage
\* read answers with the entry filed under its pair, or absent when there is
\* none, and leaves the store as it was.
C14_PutGet ==
  [][/\ \A k \in StoreKeyInputs :
          LET puts == SelectSeq(StoreInserts(obs'), LAMBDA m : SamePair(m.key, k))
              after == getMessage(messageStore', k)
          IN IF puts # <<>>
             THEN after \in {puts[Len(puts)].message, NoMessage}
             ELSE after \in {getMessage(messageStore, k), NoMessage}
     /\ LET all == StoreInserts(obs')
        IN all # <<>> =>
             getMessage(messageStore', all[Len(all)].key) = all[Len(all)].message
     /\ obs'.kind = "getMessage" =>
          /\ obs'.out = <<Lookup(messageStore, obs'.input)>>
          /\ messageStore' = messageStore]_vars

\* C14 witness: a getMessage read has returned a stored content while the
\* store was full, and another has returned absent
C14_Witness ==
  /\ obs.kind = "getMessage"
  /\ obs.out[1].present
  /\ Len(messageStore) = MAX_STORE_SIZE
  /\ \E k \in StoreKeyInputs : ~getMessage(messageStore, k).present

\* C22: a send, text or media, that the library completes with a keyed
\* result files the sent content in the message store under the (chat,
\* message id) pair of the returned key and is answered 200 with that
\* message id; a send that the library rejects is answered 500 with the
\* error's message, is not handed to the library again, and leaves the
\* message store as it was.
C22_SendOutcome ==
  [][obs'.kind = "POST /send settles" =>
       /\ (obs'.input.ok /\ obs'.input.hasKey) =>
            /\ Lookup(messageStore', obs'.input.key) = obs'.input.message
            /\ obs'.status = 200
            /\ obs'.body = obs'.input.key.id
       /\ ~obs'.input.ok =>
            /\ obs'.status = 500
            /\ obs'.body = obs'.input.error
            /\ obs'.called = 0
            /\ sends' \subseteq sends
            /\ Cardinality(sends') = Cardinality(sends) - 1
            /\ messageStore' = messageStore]_vars

\* C22 witness: a send was rejected while the store held a message, which is
\* still there
C22_Witness ==
  /\ obs.kind = "POST /send settles"
  /\ ~obs.input.ok
  /\ obs.status = 500
  /\ Len(messageStore) > 0

(***************************************************************************)
(* Properties of the recording of inbound messages                         *)
(***************************************************************************)

\* C16 as stated: after every message event, of whatever type, every message
\* of the event reads back from the store with its content.
C16_EveryEventRecorded ==
  [][obs'.kind = "messages.upsert" =>
       \A i \in 1..Len(obs'.input.messages) :
          Lookup(messageStore', obs'.input.messages[i].key)
            = obs'.input.messages[i].message]_vars

\* C16, amended: a message event of type notify records every message of it
\* that carries content, self-sent or received, surfaced or not (no text,
\* suppressed echo, no webhook configured), and the whole batch is in the
\* store before the first message's turn of the surfacing loop: the store
\* at every turn is the store the run ends with, which is the store before
\* the run with the batch inserted first-in-first-out; the last message of
\* the batch always reads back from it, and every message does when the
\* batch fits in the room left (a key stored again keeps its place in the
\* eviction order, so in a full store a later message of the batch can
\* evict it) and no later message of the batch has its key.
\* An event of any other type stores nothing and surfaces nothing, and a
\* message without content is not stored: its key reads back what it read
\* before the run, or nothing when the batch evicted that entry.
C16_NotifyRecordedFirst ==
  [][obs'.kind = "messages.upsert" =>
       LET batch == obs'.input.messages
           ins == SelectSeq(batch, LAMBDA m : m.message.present)
       IN IF obs'.input.type = "notify"
          THEN /\ messageStore' = FifoInsertAll(messageStore, ins)
               /\ Len(obs'.out) = Len(batch)
               /\ \A i \in 1..Len(obs'.out) : obs'.out[i].storeAt = messageStore'
               /\ \A i \in 1..Len(ins) :
                    (/\ \/ i = Len(ins)
                        \/ Len(messageStore) + Len(ins) <= MAX_STORE_SIZE
                     /\ \A j \in (i + 1)..Len(ins) : ~SamePair(ins[j].key, ins[i].key))
                    => Lookup(messageStore', ins[i].key) = ins[i].message
               /\ \A i \in 1..Len(batch) :
                    (~batch[i].message.present
                     /\ \A j \in 1..Len(ins) : ~SamePair(ins[j].key, batch[i].key))
                    => Lookup(messageStore', batch[i].key)
                         \in {Lookup(messageStore, batch[i].key), NoMessage}
          ELSE messageStore' = messageStore /\ obs'.out = <<>>]_vars

\* a batch of two with no webhook configured: the echo of a self-sent message,
\* not surfaced, and a received message after it, surfaced; at the second
\* one's turn both are in the store
C16_Witness ==
  /\ obs.kind = "messages.upsert" /\ obs.input.type = "notify"
  /\ WEBHOOK_URL = <<>>
  /\ Len(obs.out) = 2
  /\ obs.out[1].msg.key.fromMe /\ ~obs.out[1].surfaced
  /\ obs.out[2].surfaced
  /\ Lookup(obs.out[2].storeAt, obs.out[1].msg.key) = obs.out[1].msg.message
  /\ Lookup(obs.out[2].storeAt, obs.out[2].msg.key) = obs.out[2].msg.message

(***************************************************************************)
(* Properties of the identity table's persistence                          *)
(***************************************************************************)

\* C17: debounced persistence.  At most one flush timer is pending at any
\* time; a handler run that calls saveLidMap leaves exactly one pending,
\* whatever was pending before, so a burst of calls with no expiry in
\* between is followed by one write; the unified document is written only
\* when the timer expires, with the whole in-memory table as it stands then,
\* and no timer is pending after the write; once no handler run calls
\* saveLidMap any more, a pending flush fires.
C17_DebouncedFlush ==
  /\ [][ /\ lidSaveTimer' \in {0, 1}
         /\ obs'.saved => lidSaveTimer' = 1
         /\ (~obs'.saved /\ obs'.kind # "save-timer") => lidSaveTimer' = lidSaveTimer
         /\ obs'.kind = "save-timer" =>
              /\ lidSaveTimer = 1 /\ lidSaveTimer' = 0
              /\ sessionDir'.lidMapExists /\ sessionDir'.lidMap = lidToPhone
              /\ lidToPhone' = lidToPhone
         /\ obs'.kind \notin {"save-timer", "connection.update"} =>
              /\ sessionDir'.lidMap = sessionDir.lidMap
              /\ sessionDir'.lidMapExists = sessionDir.lidMapExists ]_vars
  /\ (<>[][~obs'.saved]_vars) => (lidSaveTimer = 1 ~> lidSaveTimer = 0)

\* the write after a burst: two handler runs have called saveLidMap, one
\* for each mapping, since the document was empty, and the one write puts
\* both mappings into it
C17_Witness ==
  /\ obs.kind = "save-timer" /\ obs.input = EmptyObject
  /\ lidSaveTimer = 0
  /\ Cardinality(DOMAIN lidToPhone) = 2
  /\ sessionDir.lidMap = lidToPhone

\* every mapping of the in-memory table is in the unified document, and a
\* process started on the session directory loads it
InDocument ==
  \A l \in DOMAIN lidToPhone :
     /\ sessionDir.lidMapExists
     /\ Get(sessionDir.lidMap, l) = lidToPhone[l]
     /\ Get(loadLidMap(EmptyObject, sessionDir), l) = lidToPhone[l]

\* C18: identity mappings are durable.  When the flush timer expires, every
\* mapping of the in-memory table is in the unified document and is loaded
\* by a process restarted on the directory; and a connection event, a
\* sign-out close included, leaves that so.
C18_DurableMappings ==
  [][ /\ obs'.kind = "save-timer" => InDocument'
      /\ (obs'.kind = "connection.update" /\ InDocument) => InDocument' ]_vars

\* the turns of one POST /resolve-numbers run with nothing in between, on a
\* directory that answers each phone with answers[phone]
RECURSIVE ResolveRun(_, _, _)
ResolveRun(e, lids, answers) ==
  IF e.todo = <<>>
  THEN [resolved |-> e.results, total_mappings |-> Cardinality(DOMAIN lids),
        table |-> lids, newMappings |-> e.newMappings]
  ELSE LET turn == resolveTurn(e, lids, answers[Head(e.todo)])
       IN ResolveRun(turn.next, turn.table, answers)

\* C20: forward resolution is idempotent.  While connected, a second
\* POST /resolve-numbers run with the same phone list and the same answers of
\* the directory, right after the first, gives the same results and the
\* same total_mappings, writes no mapping and calls saveLidMap not at all.
C20_ResolveIdempotent ==
  (connectionStatus = "connected" /\ sock # 0) =>
    \A answers \in [{P1, Plus1} -> {LidAnswer, [kind |-> "found", jid |-> Jid2],
                                    [kind |-> "none", jid |-> Undefined]}] :
       LET entry == [todo |-> TwicePhones.items, results |-> EmptyObject,
                     newMappings |-> 0]
           first == ResolveRun(entry, lidToPhone, answers)
           second == ResolveRun(entry, first.table, answers)
       IN /\ second.resolved = first.resolved
          /\ second.total_mappings = first.total_mappings
          /\ second.table = first.table
          /\ second.newMappings = 0

(***************************************************************************)
(* Properties of the connection lifecycle                                  *)
(***************************************************************************)

\* a handler run that took a close event to its end (not one that stopped at
\* the QR rendering of the same update)
ClosedWith(o, codes) ==
  /\ o.kind = "connection.update"
  /\ o.input.connection = "close"
  /\ o.input.code \in codes
  /\ o.body # <<"await">>

\* C3: at most one connection attempt is in flight: live session handles plus
\* running startBaileys invocations plus pending reconnect timers never
\* exceed one, whatever events the library delivers.
C3_AtMostOneInFlight == InFlight <= 1

\* C4: a run of the handler that takes a close event with a code other than
\* the sign-out code (an absent code included) to its end leaves
\* connectionStatus "disconnected", connectedPhone and the pairing payload
\* empty, lastError the "Disconnected (code ...), reconnecting..." message of
\* that code, one reconnect timer more than before, and the session directory
\* as it was.
C4_TransientClose ==
  [][ClosedWith(obs', {connectionClosed, Undefined}) =>
       /\ connectionStatus' = "disconnected"
       /\ connectedPhone' = <<>>
       /\ qrDataUrl' = <<>>
       /\ lastError' = <<"Disconnected (code ">> \o Template(obs'.input.code)
                          \o <<"), reconnecting...">>
       /\ lastError' # ErrLoggedOut
       /\ reconnectTimers' = reconnectTimers + 1
       /\ sessionDir' = sessionDir]_vars

\* C4 witness: a transient close of a paired, connected session has been
\* handled: its timer is pending and the credentials are still on disk
C4_Witness ==
  /\ ClosedWith(obs, {connectionClosed})
  /\ reconnectTimers = 1
  /\ connectionStatus = "disconnected"
  /\ sessionDir.creds

\* C5: a run of the handler that takes a close event with the sign-out code
\* to its end leaves connectionStatus "disconnected", lastError the terminal
\* "Logged out..." message, the session directory empty, and no reconnect
\* timer more than before.
C5_SignOutClose ==
  [][ClosedWith(obs', {loggedOut}) =>
       /\ connectionStatus' = "disconnected"
       /\ lastError' = ErrLoggedOut
       /\ sessionDir' = EmptyDir
       /\ reconnectTimers' = reconnectTimers]_vars

\* C5 witness: a sign-out close has been handled in a run that started from
\* a session directory with credentials and a flushed table
C5_Witness ==
  /\ ClosedWith(obs, {loggedOut})
  /\ lidToPhone # EmptyObject
  /\ sessionDir = EmptyDir
  /\ reconnectTimers = 0

\* C12: whenever the startup sequence fails, in the first start attempt or
\* in one a reconnect timer made, the failure's message is recorded in
\* lastError and the process keeps running.
C12_StartFailureRecorded ==
  [][obs'.kind = "start-throws" => (lastError' = ErrStart /\ running')]_vars

\* C13: once a sign-out close has been handled, the startup sequence is not
\* run again (no reconnect timer expires into startBaileys) and no new
\* session handle is made, whatever events follow.
C13_SignOutAbsorbing ==
  [][signedOut => (obs'.kind # "reconnect-timer" /\ Len(sockets') = Len(sockets))]_vars

(***************************************************************************)
(* Properties of the reconnect                                             *)
(***************************************************************************)

C27_SessionInfoConsistent ==
  [][/\ connectedPhone' # <<>> => connectionStatus' = "connected"
     /\ ~(connectionStatus = "connected" /\ connectionStatus' = "qr_ready")]_vars

(***************************************************************************)
(* Properties of the shutdown                                              *)
(***************************************************************************)

\* C25: from the moment a shutdown signal is handled until the process
\* exits, no new session handle is created.
C25_NoSessionAfterSignal ==
  [][closing => (Len(sockets') = Len(sockets) /\ sock' = sock)]_vars

(***************************************************************************)
(* Properties of the HTTP guards                                           *)
(***************************************************************************)

\* what a refused request must leave alone: the library is not called, and
\* the message store, the identity table, its flush timer and the session
\* information stay as they are
Refused ==
  /\ obs'.called = 0
  /\ sends' = sends
  /\ resolves' = resolves
  /\ UNCHANGED <<messageStore, lidToPhone, lidSaveTimer, sessionDir, sock,
                 connectionStatus, connectedPhone, qrDataUrl, lastError>>

\* C7: POST /send answers 400 when `to` is missing, 400 when `to` is there
\* and neither text/message nor media_url is, and 500 "Not connected to
\* WhatsApp" when there is something to send and the session handle is
\* absent or connectionStatus is not "connected"; in the three cases the
\* library's send is not called and store, table and session information are
\* unchanged.
C7_SendRefusals ==
  [][(obs'.kind = "POST /send" /\ obs'.input.valid) =>
       LET d == obs'.input
           hasText == Truthy(d.text) \/ Truthy(d.message)
           hasMedia == Truthy(d.media_url)
       IN /\ ~Truthy(d.to) => (obs'.status = 400 /\ Refused)
          /\ (Truthy(d.to) /\ ~hasText /\ ~hasMedia) =>
               (obs'.status = 400 /\ Refused)
          /\ (Truthy(d.to) /\ (hasText \/ hasMedia)
                /\ (sock = 0 \/ connectionStatus # "connected")) =>
               (obs'.status = 500 /\ obs'.body = <<"Not connected to WhatsApp">>
                /\ Refused)]_vars

\* C7 witness: a send with media was refused with 500 although a session
\* handle exists, the session having been closed
C7_Witness ==
  /\ obs.kind = "POST /send"
  /\ obs.status = 500
  /\ Truthy(obs.input.media_url)
  /\ sock # 0
  /\ connectionStatus = "disconnected"

\* C8: POST /resolve-numbers answers 400 when `phones` is missing, no array
\* or empty, whatever the connection state, and 503 when it is a non-empty
\* array and the session is not connected; in both cases no lookup is issued,
\* the table is unchanged and no flush is scheduled.
C8_ResolveRefusals ==
  [][obs'.kind = "POST /resolve-numbers" =>
       LET p == obs'.input
           usable == p.kind = "array" /\ p.items # <<>>
       IN /\ ~usable => (obs'.status = 400 /\ Refused)
          /\ (usable /\ (sock = 0 \/ connectionStatus # "connected")) =>
               (obs'.status = 503 /\ Refused)]_vars

\* C8 witness: a non-empty list was refused with 503 while the pairing code
\* was showing
C8_Witness ==
  /\ obs.kind = "POST /resolve-numbers"
  /\ obs.status = 503
  /\ obs.input.items # <<>>
  /\ connectionStatus = "qr_ready"

\* C24: POST /resolve-numbers is guarded by the connected state throughout a
\* batch: every step of the handler that issues a directory lookup or
\* records a mapping is taken while connectionStatus is connected.
C24_GuardedBatch ==
  [][(/\ obs'.kind \in {"POST /resolve-numbers", "POST /resolve-numbers answer"}
      /\ (obs'.called > 0 \/ lidToPhone' # lidToPhone))
       => connectionStatus = "connected"]_vars

(***************************************************************************)
(* Properties of the identity table and the inbound path                   *)
(***************************************************************************)

\* the records of a notify batch's messages that carry a text
TextRecords(o) ==
  IF o.kind = "messages.upsert" /\ o.input.type = "notify"
  THEN {o.out[i] : i \in {j \in 1..Len(o.out) :
                            \/ Truthy(o.out[j].msg.message.conversation)
                            \/ Truthy(o.out[j].msg.message.text)}}
  ELSE {}

LocalPart(jid) == SplitHead(jid, "@")

IsLidForm(jid) == EndsWith(jid, AtLid)

\* C2: first-write-wins: whatever a handler run does, every LID the identity
\* table maps before the run is mapped to the same phone after it.
C2_FirstWriteWins ==
  [][\A l \in DOMAIN lidToPhone :
       l \in DOMAIN lidToPhone' /\ lidToPhone'[l] = lidToPhone[l]]_vars

\* C6: in a notify batch, a text-bearing message with key.fromMe set gets
\* past the echo filter exactly when its chat's local part is the connected
\* phone, or the chat is LID-form and the table, as it stands at that
\* message's turn, maps the LID to the connected phone; a text-bearing
\* message without fromMe always gets past it; and a webhook event is posted
\* for exactly the messages that got past it, when WEBHOOK_URL is set.
C6_SelfChatOnly ==
  [][\A r \in TextRecords(obs') :
       LET jid == r.msg.key.remoteJid
           self == \/ LocalPart(jid) = connectedPhone
                   \/ IsLidForm(jid) /\ Get(r.tableAt, LocalPart(jid)) = connectedPhone
       IN /\ r.msg.key.fromMe => (r.surfaced <=> self)
          /\ ~r.msg.key.fromMe => r.surfaced
          /\ r.posted <=> (r.surfaced /\ WEBHOOK_URL # <<>>)]_vars

\* C6 witness: an echo in a LID-form chat whose LID the table maps to the
\* connected phone has been posted to the webhook
C6_Witness ==
  \E r \in TextRecords(obs) :
    /\ r.msg.key.fromMe
    /\ r.msg.key.remoteJid = Lid8
    /\ connectedPhone = P1
    /\ r.posted
    /\ r.payload.from = P1

\* C9: a text-bearing message that got past the echo filter and whose chat
\* is LID-form, with the LID in none of the table, the library's contact
\* directory and the reverse records on disk, is reported with from and
\* from_lid both the raw LID, and its turn leaves the table as it was; one
\* whose chat is not LID-form is reported with from the chat's local part
\* and from_lid empty, and leaves the table as it was too.
C9_ResolutionMiss ==
  [][\A r \in TextRecords(obs') :
       LET jid == r.msg.key.remoteJid
           lid == LocalPart(jid)
           miss == /\ IsLidForm(jid)
                   /\ ~Truthy(Get(r.tableAt, lid))
                   /\ ~Truthy(Get(sockets[sock].contacts, jid))
                   /\ ~Truthy(Get(sessionDir.reverse, lid))
       IN r.surfaced =>
            /\ miss => /\ r.payload.from = lid
                       /\ r.payload.from_lid = lid
                       /\ r.tableAfter = r.tableAt
            /\ ~IsLidForm(jid) => /\ r.payload.from = lid
                                  /\ r.payload.from_lid = <<>>
                                  /\ r.tableAfter = r.tableAt]_vars

\* C9 witness: a message of the chat 9@lid, which nothing resolves, has been
\* posted with the raw LID, and the table has no entry for it
C9_Witness ==
  \E r \in TextRecords(obs) :
    /\ r.msg.key.remoteJid = Lid9
    /\ r.posted
    /\ r.payload.from = L9
    /\ r.payload.from_lid = L9
    /\ L9 \notin DOMAIN lidToPhone

\* C10: a contact event that reports a LID with a phone while the table has
\* no mapping for it leaves the table mapping the LID to that phone
\* (normalised), and every message of that LID's chat posted by a later
\* handler run has from = that phone and from_lid = the LID.
C10_SyncedMappingSticks ==
  [][/\ \A l \in DOMAIN synced' \ DOMAIN synced : Get(lidToPhone', l) = synced'[l]
     /\ \A r \in TextRecords(obs') :
          LET jid == r.msg.key.remoteJid
              lid == LocalPart(jid)
          IN (r.posted /\ IsLidForm(jid) /\ lid \in DOMAIN synced) =>
               (r.payload.from = synced[lid] /\ r.payload.from_lid = lid)]_vars

\* C23: the phone reported for a text-bearing message that got past the echo
\* filter follows a strict priority.  For a LID-form chat: the table's
\* mapping, as the table stands at the message's turn, whenever it has one,
\* whatever the contact directory and the reverse record say, and the turn
\* leaves the table as it was; otherwise the contact directory's phone
\* (normalised), which the turn records in the table; otherwise the reverse
\* record's phone, which the turn records in the table; otherwise the raw
\* LID, the table left as it was.  For any other chat: the chat's local
\* part, the table left as it was.  A run of the handler calls saveLidMap,
\* leaving one flush pending, exactly when one of its turns took the phone
\* from the contact directory.
C23_ResolutionPriority ==
  [][obs'.kind = "messages.upsert" =>
       LET shown == {r \in TextRecords(obs') : r.surfaced}
           lid(r) == LocalPart(r.msg.key.remoteJid)
           inTable(r) == Get(r.tableAt, lid(r))
           inContacts(r) == Get(sockets[sock].contacts, r.msg.key.remoteJid)
           inFile(r) == Get(sessionDir.reverse, lid(r))
           fromContacts(r) == /\ IsLidForm(r.msg.key.remoteJid)
                              /\ ~Truthy(inTable(r))
                              /\ Truthy(inContacts(r))
       IN /\ \A r \in shown :
               IF ~IsLidForm(r.msg.key.remoteJid)
               THEN r.payload.from = lid(r) /\ r.tableAfter = r.tableAt
               ELSE IF Truthy(inTable(r))
               THEN r.payload.from = inTable(r) /\ r.tableAfter = r.tableAt
               ELSE IF Truthy(inContacts(r))
               THEN /\ r.payload.from = normalizePhone(inContacts(r))
                    /\ r.tableAfter = Put(r.tableAt, lid(r), r.payload.from)
               ELSE IF Truthy(inFile(r))
               THEN /\ r.payload.from = inFile(r)
                    /\ r.tableAfter = Put(r.tableAt, lid(r), r.payload.from)
               ELSE r.payload.from = lid(r) /\ r.tableAfter = r.tableAt
          /\ obs'.saved <=> (\E r \in shown : fromContacts(r))
          /\ lidSaveTimer' = IF obs'.saved THEN 1 ELSE lidSaveTimer]_vars

\* C23 witness: a message of the chat 8@lid has been reported with the
\* table's phone 2 while the contact directory holds +1 for the chat, and
\* no flush was scheduled
C23_Witness ==
  \E r \in TextRecords(obs) :
    /\ r.surfaced
    /\ r.msg.key.remoteJid = Lid8
    /\ Get(r.tableAt, L8) = P2
    /\ sock # 0
    /\ Get(sockets[sock].contacts, Lid8) = Plus1
    /\ r.payload.from = P2
    /\ ~obs.saved

\* C26: in a notify batch a message is surfaced only if it has a non-empty
\* text, and a received message that has one is surfaced; the text of the
\* event is the plain-text variant when that is present and non-empty,
\* otherwise the extended-text variant; a message with neither (another
\* content variant, or empty texts) is not surfaced and no POST is written
\* for it, yet it reads back from the message store after the run (when it
\* is the batch's last message with content, or the batch fits in the room
\* the store has left and no later message of the batch has its key).
C26_TextOrNothing ==
  [][(obs'.kind = "messages.upsert" /\ obs'.input.type = "notify") =>
       LET batch == obs'.input.messages
           ins == SelectSeq(batch, LAMBDA m : m.message.present)
           plain(m) == m.message.conversation
           extended(m) == m.message.text
           hasText(m) == Truthy(plain(m)) \/ Truthy(extended(m))
           later(i) == {j \in (i + 1)..Len(batch) : batch[j].message.present}
       IN \A i \in 1..Len(batch) :
            LET r == obs'.out[i]
                m == batch[i]
            IN /\ r.surfaced => hasText(m)
               /\ (hasText(m) /\ ~m.key.fromMe) => r.surfaced
               /\ r.surfaced =>
                    r.payload.message = IF Truthy(plain(m)) THEN plain(m)
                                        ELSE extended(m)
               /\ ~hasText(m) => (~r.surfaced /\ ~r.posted)
               /\ (/\ m.message.present
                   /\ ~hasText(m)
                   /\ \/ later(i) = {}
                      \/ Len(messageStore) + Len(ins) <= MAX_STORE_SIZE
                   /\ \A j \in later(i) : ~SamePair(batch[j].key, m.key))
                    => Lookup(messageStore', m.key) = m.message]_vars

\* C26 witness: a batch of a message with another content variant and a
\* message with an empty plain text and an extended text g: the first was
\* not posted and is in the store, the second was posted with the text g
C26_Witness ==
  /\ obs.kind = "messages.upsert"
  /\ Len(obs.out) = 2
  /\ obs.out[1].msg.message = Content(Undefined, Undefined)
  /\ ~obs.out[1].surfaced
  /\ Lookup(messageStore, obs.out[1].msg.key) = Content(Undefined, Undefined)
  /\ obs.out[2].msg.message = Content(<<>>, TextG)
  /\ obs.out[2].posted
  /\ obs.out[2].payload.message = TextG

====
